---- MODULE Spec2Model ----
(***************************************************************************)
(* A model of conda_mirror.py: the download / validate / checkpoint        *)
(* pipeline of main (specification Spec), the selection rules and the      *)
(* dependency-closure resolver (specifications SpecSel and SpecSelLive),   *)
(* _match as a function of its arguments (specification SpecMatch), the    *)
(* retry loop of _download_backoff_retry (specification SpecRetry),        *)
(* _validate as a function of its arguments (specification SpecValidate)   *)
(* and _validate_packages with its worker pool (specification SpecPool).   *)
(*                                                                         *)
(* Filenames are integers; their numeric order is the lexicographic order  *)
(* of the filenames (sorted(...) in the source).                           *)
(***************************************************************************)
EXTENDS Integers, Sequences, FiniteSets, TLC

\* ------------------------------------------------------------------ bounds

\* number of filenames in the remote snapshot used by the pipeline
NPkgs == 17
\* at most this many fetches of one run deliver a file that is not the
\* expected content
MaxBad == 1

\* (package_counter + 1) % 15 == 0 : the checkpoint batch size
CheckpointBatch == 15

\* ------------------------------------------------------- pipeline: values

\* an index file that does not exist (no filename is negative)
NoFile == {-1}
NoMd5 == "None"
NoExc == "none"

\* a file of the target directory that the remote snapshot does not list
Foreign == 0

\* get_repodata: the filenames of repodata["packages"]
packages == 1 .. NPkgs

\* a file of the target directory that the remote snapshot does not list and
\* whose name sorts after every name of the snapshot
ForeignLast == NPkgs + 1

\* file contents, by what _validate can observe of them
Good == [hash |-> "h1", size |-> 2, tar |-> "ok"]
Partial == [hash |-> "h0", size |-> 1, tar |-> "corrupt"]
NoMeta == [hash |-> "h0", size |-> 2, tar |-> "nometa"]

\* sorted(S) for a set of filenames
RECURSIVE SortedSeq(_)
SortedSeq(S) ==
  IF S = {} THEN << >>
  ELSE LET m == CHOOSE x \in S : \A y \in S : x <= y
       IN  << m >> \o SortedSeq(S \ {m})

\* the function f without the key k (os.remove, shutil.move's source side)
Without(f, k) == [x \in (DOMAIN f) \ {k} |-> f[x]]
\* the function f with key k set to v (a file created or overwritten)
With(f, k, v) == [x \in (DOMAIN f) \cup {k} |-> IF x = k THEN v ELSE f[x]]

\* ---------------------------------------------------------------- _validate

\* a _validate that tests the size before the hash
ValidateSizeFirst(md5, size, content) ==
  IF size # -1 /\ size # 0 /\ size # content.size THEN "size"
  ELSE IF md5 # NoMd5 /\ md5 # "" THEN (IF content.hash = md5 THEN "pass" ELSE "md5")
  ELSE IF content.tar = "corrupt" THEN "tar"
  ELSE IF content.tar = "nometa" THEN "raise"
  ELSE "pass"

\* _validate(filename, md5, size): "pass" is (filename, None); "md5", "size"
\* and "tar" are the three _remove_package reasons; "raise" is an exception
\* that the except clause (tarfile.TarError, EOFError) does not catch:
\* extractfile("info/index.json") raises KeyError for an archive without
\* that member.
Validate(md5, size, content) ==
  IF md5 # NoMd5 /\ md5 # ""
  THEN IF content.hash = md5 THEN "pass" ELSE "md5"
  ELSE IF size # -1 /\ size # 0 /\ size # content.size THEN "size"
  ELSE IF content.tar = "corrupt" THEN "tar"
  ELSE IF content.tar = "nometa" THEN "raise"
  ELSE "pass"

\* ------------------------------------------------------- pipeline: state

VARIABLES
  pc,                 \* position in main
  dry_run,            \* main's parameter
  no_validate_target, \* main's parameter
  has_md5,            \* whether the snapshot's records carry an md5
  excluded_packages,  \* main's excluded_packages after selection
  dirs,               \* directories that exist under the target root
  target,             \* local_directory: filename -> content
  index,              \* local_directory/repodata.json: its filenames, or NoFile
  index_bz2,          \* local_directory/repodata.json.bz2, likewise
  temp,               \* download_dir: filename -> content
  temp_index,         \* download_dir/repodata.json
  temp_bz2,           \* download_dir/repodata.json.bz2
  noarch_index,       \* noarch/repodata.json
  local_packages,     \* main's local_packages
  to_mirror,          \* main's to_mirror
  mirror_seq,         \* sorted(to_mirror), which the loop enumerates
  package_counter,    \* loop iterations started so far
  final,              \* the running checkpoint is the one after the loop
  loop_exit,          \* how the download loop ended
  summary,            \* main's summary
  raised,             \* the exception leaving main, or NoExc
  checkpoints,        \* completed _validate_and_move calls
  ckpt_counter,       \* package_counter at the last completed checkpoint
  bad_used,           \* fetches so far that delivered unexpected content
  max_packages,       \* main's parameter, NoCap for None
  run,                \* 1 in the first run of main, 2 in the one that follows it
  repodata_packages   \* main's packages: the filenames of the snapshot in memory,
                      \* NoFile before get_repodata has returned

VARIABLES
  all_packages,       \* selection: the snapshot, filename -> record
  blacklist,          \* main's parameter: a sequence of rules
  whitelist,          \* main's parameter: a sequence of rules
  python_whitelist,   \* main's parameter: a sequence of (python_version, rules)
  include_depends,    \* main's parameter
  only_most_recent,   \* main's parameter
  required_packages,  \* main's required_packages
  python_version,     \* main's local python_version, Unbound until assigned
  cur_required,       \* _restore_required_dependencies: the frontier
  final_excluded,     \* _restore_required_dependencies: its working set
  excluded_in         \* the excluded set _restore_required_dependencies was given

svars == << all_packages, blacklist, whitelist, python_whitelist,
            include_depends, only_most_recent, required_packages,
            python_version, cur_required, final_excluded, excluded_in >>

VARIABLES
  max_retries,        \* _download_backoff_retry: its parameter
  c,                  \* _download_backoff_retry: attempts made
  two_c,              \* _download_backoff_retry: 2^c
  rtn,                \* _download_backoff_retry: the value of rtn, or Unbound
  rpc,                \* _download_backoff_retry: its position
  slept,              \* the jitter factor of the last time.sleep, -1 if none
  attempt_log         \* what each _download call did, in order

rvars == << max_retries, c, two_c, rtn, rpc, slept, attempt_log >>

VARIABLES
  val_md5,            \* _validate: its md5 argument, NoMd5 for None
  val_size,           \* _validate: its size argument, -1 for None
  val_file,           \* _validate: the content of the file at filename
  val_exists,         \* whether the file at filename is on disk
  val_out             \* _validate: how the call ended, "pending" before it

vvars == << val_md5, val_size, val_file, val_exists, val_out >>

VARIABLES
  num_threads,        \* _validate_packages: its parameter
  cpu_count,          \* what os.cpu_count() returns
  package_directory,  \* the directory being validated: filename -> content
  dir_in,             \* that directory as it was when _validate_packages was called
  task_queue,         \* the chunks of val_func_arg_list no worker has taken yet
  pool_workers,       \* worker -> the rest of its chunk and a removal it is about to make
  validation_results, \* the (file, reason) pairs produced so far, then what the caller gets
  pool_failed,        \* a call of _validate_or_remove_package has raised
  pool_log            \* filename -> how often it was handled and how often os.remove ran on it

wvars == << num_threads, cpu_count, package_directory, dir_in, task_queue,
            pool_workers, validation_results, pool_failed, pool_log >>

VARIABLES
  key_pattern_dict,   \* _match: its parameter, one rule
  match_returned      \* _match: the filenames of the mapping it returns

mvars == << key_pattern_dict, match_returned >>

pvars == << pc, dry_run, no_validate_target, has_md5, excluded_packages, dirs,
            target, index, index_bz2, temp, temp_index, temp_bz2, noarch_index,
            local_packages, to_mirror, mirror_seq, package_counter, final, loop_exit,
            summary, raised, checkpoints, ckpt_counter, bad_used, max_packages,
            run, repodata_packages >>

\* ------------------------------------------------------ pipeline: helpers

\* packages[f].get("md5"), packages[f].get("size")
RecordMd5(f) == IF has_md5 THEN "h1" ELSE NoMd5
RecordSize(f) == 2

\* a validation step that keeps every file
ValidateOrRemoveKeepsAll(package, repodata_keys, content) == "pass"

\* _validate_or_remove_package for `package` in a directory validated against
\* the keys of package_repodata, the file holding content
ValidateOrRemove(package, repodata_keys, content) ==
  IF package \notin repodata_keys THEN "notinindex"
  ELSE Validate(RecordMd5(package), RecordSize(package), content)

\* _validate_packages(package_repodata, package_directory) with num_threads 1,
\* as the caller consumes its result: the files in sorted order, each one
\* kept or removed, up to the first call that raises. dir is the directory
\* left behind, results the (file, reason) pairs
RECURSIVE ValidatePackages(_, _, _)
ValidatePackages(fs, repodata_keys, dir) ==
  IF fs = << >> THEN [dir |-> dir, results |-> {}, raised |-> FALSE]
  ELSE LET f == Head(fs)
           out == ValidateOrRemove(f, repodata_keys, dir[f])
       IN  IF out = "raise" THEN [dir |-> dir, results |-> {}, raised |-> TRUE]
           ELSE LET rest == ValidatePackages(Tail(fs), repodata_keys,
                                IF out = "pass" THEN dir ELSE Without(dir, f))
                IN  [rest EXCEPT !.results =
                       @ \cup {<< f, IF out = "pass" THEN "None" ELSE out >>}]

\* possible_packages_to_mirror = set(packages.keys()) - excluded_packages
PossiblePackagesToMirror == packages \ excluded_packages

\* max_packages=None
NoCap == -1

\* the max_packages values tried: None, and a cap of one file
MaxPackagesChoices == {NoCap, 1}

\* a to_mirror that ignores what is already in the target directory
ToMirrorIgnoringLocal(possible, local) == possible

\* to_mirror = possible_packages_to_mirror - set(local_packages)
ToMirrorCandidates(possible, local) == possible \ local

\* a to-mirror set that the cap does not cut
ToMirrorChoicesUncapped(candidates, cap) == {candidates}

\* set(itertools.islice(to_mirror, max_packages)): the first max_packages
\* elements in the iteration order of a set of strings, which nothing fixes,
\* so any subset of that size
ToMirrorChoices(candidates, cap) ==
  IF cap = NoCap THEN {candidates}
  ELSE IF Cardinality(candidates) <= cap THEN {candidates}
  ELSE {S \in SUBSET candidates : Cardinality(S) = cap}

\* a checkpoint taken one iteration late
CheckpointDueLate(n) == n % (CheckpointBatch + 1) = 0

\* (package_counter + 1) % 15 == 0, n being the iterations completed
CheckpointDue(n) == n % CheckpointBatch = 0

\* packages_we_have without the listing of download_dir
PrunedIndexLocalOnly == {name \in repodata_packages : name \in local_packages}

\* packages_we_have, then the pruned repodata["packages"] of _validate_and_move
PrunedIndex ==
  {name \in repodata_packages : name \in local_packages \cup DOMAIN temp}

\* a pruning that rebinds the snapshot itself to the pruned mapping
PackagesAfterPruningInPlace(snapshot, pruned) == pruned

\* repodata["packages"] = {...}: the pruned mapping is a new dict stored in
\* the local repodata dict; main's packages is left as it was
PackagesAfterPruning(snapshot, pruned) == snapshot

\* an except clause that re-raises after the final checkpoint
ReraisedDownloadException == "DownloadError"

\* except Exception as ex: logger.exception(...); break -- what is left of the
\* download exception once main has caught it
CaughtDownloadException == NoExc

EmptyDir == [x \in {} |-> Good]

EmptySummary ==
  [validating_existing |-> {}, validating_new |-> {}, downloaded |-> {},
   blacklisted |-> {}, to_mirror |-> {}]

\* the target directory before the run, as an earlier run left it: empty,
\* or holding file 2 (valid, or truncated since), possibly with file 1 and a
\* file the remote index no longer lists; or holding file 2 replaced by an
\* archive without info/index.json and an unlisted file that sorts last
PriorTargets ==
  {[x \in S |-> IF x = 2 THEN content ELSE Good] :
     S \in {{2}, {Foreign, 1, 2}}, content \in {Good, Partial}}
    \cup {EmptyDir, [x \in {2, ForeignLast} |-> IF x = 2 THEN NoMeta ELSE Good]}

\* the target root before the run: nothing at all, an empty noarch directory
\* alone, or what an earlier run left, its index listing the files present
PriorDisks ==
  {[dirs |-> {}, target |-> EmptyDir, index |-> NoFile, noarch |-> NoFile],
   [dirs |-> {"noarch"}, target |-> EmptyDir, index |-> NoFile, noarch |-> NoFile]}
    \cup {[dirs |-> {"platform", "noarch"}, target |-> t, index |-> DOMAIN t,
           noarch |-> {}] : t \in PriorTargets}

RunModes == {<< FALSE, FALSE >>, << FALSE, TRUE >>, << TRUE, FALSE >>}

ExcludedChoices == {{1}}

\* a local variable that has not been assigned
Unbound == "unbound"

NoDir == [x \in {} |-> [name |-> ""]]

\* the selection variables while the pipeline or the retry loop is studied
SelIdle ==
  /\ all_packages = NoDir
  /\ blacklist = << >>
  /\ whitelist = << >>
  /\ python_whitelist = << >>
  /\ include_depends = FALSE
  /\ only_most_recent = FALSE
  /\ required_packages = {}
  /\ python_version = Unbound
  /\ cur_required = {}
  /\ final_excluded = {}
  /\ excluded_in = {}

\* the retry variables while the pipeline or the selection is studied
RetryIdle ==
  /\ max_retries = 0
  /\ c = 0
  /\ two_c = 1
  /\ rtn = Unbound
  /\ rpc = "idle"
  /\ slept = -1
  /\ attempt_log = << >>

\* the _validate variables while another part of the program is studied
ValidateIdle ==
  /\ val_md5 = NoMd5
  /\ val_size = -1
  /\ val_file = Good
  /\ val_exists = FALSE
  /\ val_out = "idle"

\* the _validate_packages variables while another part of the program is
\* studied
PoolIdle ==
  /\ num_threads = 1
  /\ cpu_count = 1
  /\ package_directory = EmptyDir
  /\ dir_in = EmptyDir
  /\ task_queue = << >>
  /\ pool_workers = << >>
  /\ validation_results = {}
  /\ pool_failed = FALSE
  /\ pool_log = << >>

\* the variables of a single _match call while another part of the program
\* is studied
MatchIdle ==
  /\ key_pattern_dict = << >>
  /\ match_returned = {}

\* ---------------------------------------------------------- pipeline: Init

Init ==
  /\ SelIdle
  /\ RetryIdle
  /\ ValidateIdle
  /\ PoolIdle
  /\ MatchIdle
  /\ pc = "makedirs"
  /\ \E m \in RunModes : dry_run = m[1] /\ no_validate_target = m[2]
  /\ has_md5 \in BOOLEAN
  /\ excluded_packages \in ExcludedChoices
  /\ \E d \in PriorDisks :
       /\ dirs = d.dirs
       /\ target = d.target
       /\ index = d.index
       /\ index_bz2 = d.index
       /\ noarch_index = d.noarch
  /\ temp = EmptyDir
  /\ temp_index = NoFile
  /\ temp_bz2 = NoFile
  /\ local_packages = {}
  /\ to_mirror = {}
  /\ mirror_seq = << >>
  /\ package_counter = 0
  /\ final = FALSE
  /\ loop_exit = "running"
  /\ summary = EmptySummary
  /\ raised = NoExc
  /\ checkpoints = 0
  /\ ckpt_counter = 0
  /\ bad_used = 0
  /\ max_packages \in MaxPackagesChoices
  /\ run = 1
  /\ repodata_packages = NoFile

\* ------------------------------------------------- main: before the loop

\* a makedirs that does not look at dry_run
DirsAfterMakedirsAlways(before, dry) == before \cup {"platform"}

\* if not dry_run: os.makedirs(local_directory, exist_ok=True)
DirsAfterMakedirs(before, dry) == IF dry THEN before ELSE before \cup {"platform"}

MakeDirs ==
  /\ pc = "makedirs"
  /\ dirs' = DirsAfterMakedirs(dirs, dry_run)
  /\ pc' = "get_repodata"
  /\ UNCHANGED << dry_run, no_validate_target, has_md5, excluded_packages,
                  target, index, index_bz2, temp, temp_index, temp_bz2,
                  noarch_index, local_packages, to_mirror, mirror_seq, package_counter,
                  final, loop_exit, summary, raised, checkpoints,
                  ckpt_counter, bad_used, run, max_packages, svars, rvars, vvars, wvars, repodata_packages, mvars >>

\* get_repodata returns the snapshot
GetRepodataOk ==
  /\ pc = "get_repodata"
  /\ repodata_packages' = packages
  /\ pc' = "select"
  /\ UNCHANGED << dry_run, no_validate_target, has_md5, excluded_packages, dirs,
                  target, index, index_bz2, temp, temp_index, temp_bz2,
                  noarch_index, local_packages, to_mirror, mirror_seq, package_counter,
                  final, loop_exit, summary, raised, checkpoints,
                  ckpt_counter, bad_used, run, max_packages, svars, rvars, vvars, wvars, mvars >>

\* an HTTP error after which main carries on with the selection
AfterRepodataFailureCarryOn == "select"

\* raise RuntimeError(...) in get_repodata; main has no handler around the
\* call, so main is over
AfterRepodataFailure == "failed"

\* get_repodata: raise_for_status fails, RuntimeError leaves main
GetRepodataFail ==
  /\ pc = "get_repodata"
  /\ pc' = AfterRepodataFailure
  /\ raised' = "RuntimeError"
  /\ UNCHANGED << dry_run, no_validate_target, has_md5, excluded_packages, dirs,
                  target, index, index_bz2, temp, temp_index, temp_bz2,
                  noarch_index, local_packages, to_mirror, mirror_seq, package_counter,
                  final, loop_exit, summary, checkpoints,
                  ckpt_counter, bad_used, run, max_packages, svars, rvars, vvars, wvars, repodata_packages, mvars >>

\* selection has produced excluded_packages; summary["blacklisted"] is set
Select ==
  /\ pc = "select"
  /\ summary' = [summary EXCEPT !.blacklisted = excluded_packages]
  /\ pc' = IF dry_run \/ no_validate_target THEN "list_local" ELSE "validate_existing"
  /\ UNCHANGED << dry_run, no_validate_target, has_md5, excluded_packages, dirs,
                  target, index, index_bz2, temp, temp_index, temp_bz2,
                  noarch_index, local_packages, to_mirror, mirror_seq, package_counter,
                  final, loop_exit, raised, checkpoints, ckpt_counter,
                  bad_used, run, max_packages, svars, rvars, vvars, wvars, repodata_packages, mvars >>

\* validation_results = _validate_packages(desired_repodata, local_directory)
\* and summary["validating-existing"].update(validation_results)
ValidateExisting ==
  /\ pc = "validate_existing"
  /\ LET v == ValidatePackages(SortedSeq(DOMAIN target),
                               PossiblePackagesToMirror, target)
     IN  /\ target' = v.dir
         /\ summary' = [summary EXCEPT !.validating_existing = @ \cup v.results]
         /\ raised' = IF v.raised THEN "KeyError" ELSE raised
         /\ pc' = IF v.raised THEN "failed" ELSE "list_local"
  /\ UNCHANGED << dry_run, no_validate_target, has_md5, excluded_packages, dirs,
                  index, index_bz2, temp, temp_index, temp_bz2,
                  noarch_index, local_packages, to_mirror, mirror_seq, package_counter,
                  final, loop_exit, checkpoints, ckpt_counter, bad_used, run, max_packages, svars, rvars, vvars, wvars, repodata_packages, mvars >>

\* local_packages = _list_conda_packages(local_directory); to_mirror; a dry
\* run returns the summary here
ListLocal ==
  /\ pc = "list_local"
  /\ local_packages' = DOMAIN target
  /\ to_mirror' \in ToMirrorChoices(
                      ToMirrorCandidates(PossiblePackagesToMirror, DOMAIN target),
                      max_packages)
  /\ mirror_seq' = SortedSeq(to_mirror')
  /\ summary' = [summary EXCEPT !.to_mirror = to_mirror']
  /\ pc' = IF dry_run THEN "done" ELSE "loop"
  /\ UNCHANGED << dry_run, no_validate_target, has_md5, excluded_packages, dirs,
                  target, index, index_bz2, temp, temp_index, temp_bz2,
                  noarch_index, package_counter, final, loop_exit,
                  raised, checkpoints, ckpt_counter, bad_used, run, max_packages, svars, rvars, vvars, wvars, repodata_packages, mvars >>

\* ------------------------------------------------------ main: the loop

LoopRunning == pc = "loop" /\ package_counter < Len(mirror_seq)

\* the file of the iteration that is starting
CurrentPackage == mirror_seq[package_counter + 1]

\* leaving the loop (break, or the sequence is exhausted): the final
\* _validate_and_move is next
LeaveLoop(why, newtemp) ==
  /\ loop_exit' = why
  /\ final' = TRUE
  /\ temp' = newtemp
  /\ pc' = "ckpt_validate"

\* for ... in enumerate(sorted(to_mirror)) has no element left
LoopEnd ==
  /\ pc = "loop"
  /\ package_counter = Len(mirror_seq)
  /\ LeaveLoop("exhausted", temp)
  /\ UNCHANGED << dry_run, no_validate_target, has_md5, excluded_packages, dirs,
                  target, index, index_bz2, temp_index, temp_bz2, noarch_index,
                  local_packages, to_mirror, mirror_seq, package_counter, summary, raised,
                  checkpoints, ckpt_counter, bad_used, run, max_packages, svars, rvars, vvars, wvars, repodata_packages, mvars >>

\* shutil.disk_usage(download_dir).free < minimum_free_space_kb: break
DiskLowTemp ==
  /\ LoopRunning
  /\ LeaveLoop("disk", temp)
  /\ UNCHANGED << dry_run, no_validate_target, has_md5, excluded_packages, dirs,
                  target, index, index_bz2, temp_index, temp_bz2, noarch_index,
                  local_packages, to_mirror, mirror_seq, package_counter, summary, raised,
                  checkpoints, ckpt_counter, bad_used, run, max_packages, svars, rvars, vvars, wvars, repodata_packages, mvars >>

\* _download_backoff_retry raises (retries exhausted, or max_retries <= 0);
\* _download has opened the file for writing unless open itself failed, so
\* a partial file may be left; except Exception: break
FetchRaise ==
  /\ LoopRunning
  /\ \E leftover \in BOOLEAN :
       LeaveLoop("exception",
                 IF leftover THEN With(temp, CurrentPackage, Partial) ELSE temp)
  /\ UNCHANGED << dry_run, no_validate_target, has_md5, excluded_packages, dirs,
                  target, index, index_bz2, temp_index, temp_bz2, noarch_index,
                  local_packages, to_mirror, mirror_seq, package_counter, summary, raised,
                  checkpoints, ckpt_counter, bad_used, run, max_packages, svars, rvars, vvars, wvars, repodata_packages, mvars >>

\* the contents a completed fetch can have written: the expected package, or
\* (a bounded number of times) something else the server sent
FetchContents == IF bad_used < MaxBad THEN {Good, NoMeta} ELSE {Good}

\* the fetch returns, then free space of local_directory minus total_bytes
\* is below the threshold: break before summary["downloaded"].add
DiskLowTarget ==
  /\ LoopRunning
  /\ \E content \in FetchContents :
       /\ LeaveLoop("disk", With(temp, CurrentPackage, content))
       /\ bad_used' = IF content = Good THEN bad_used ELSE bad_used + 1
  /\ UNCHANGED << dry_run, no_validate_target, has_md5, excluded_packages, dirs,
                  target, index, index_bz2, temp_index, temp_bz2, noarch_index,
                  local_packages, to_mirror, mirror_seq, package_counter, summary, raised,
                  checkpoints, ckpt_counter, run, max_packages, svars, rvars, vvars, wvars, repodata_packages, mvars >>

\* a whole iteration: both disk checks pass, the fetch returns, the url is
\* added to summary["downloaded"], and every 15th iteration starts a
\* checkpoint
FetchOk ==
  /\ LoopRunning
  /\ \E content \in FetchContents :
       /\ temp' = With(temp, CurrentPackage, content)
       /\ bad_used' = IF content = Good THEN bad_used ELSE bad_used + 1
  /\ summary' = [summary EXCEPT !.downloaded = @ \cup {CurrentPackage}]
  /\ package_counter' = package_counter + 1
  /\ pc' = IF CheckpointDue(package_counter + 1) THEN "ckpt_validate" ELSE "loop"
  /\ UNCHANGED << dry_run, no_validate_target, has_md5, excluded_packages, dirs,
                  target, index, index_bz2, temp_index, temp_bz2, noarch_index,
                  local_packages, to_mirror, mirror_seq, final, loop_exit, raised,
                  checkpoints, ckpt_counter, run, max_packages, svars, rvars, vvars, wvars, repodata_packages, mvars >>

\* ------------------------------------------------- _validate_and_move

\* validation_results = _validate_packages(packages, download_dir) and
\* summary["validating-new"].update(validation_results); an exception leaves
\* _validate_and_move and main, and the TemporaryDirectory is removed on the
\* way out
CkptValidate ==
  /\ pc = "ckpt_validate"
  /\ LET v == ValidatePackages(SortedSeq(DOMAIN temp), packages, temp)
     IN  /\ temp' = IF v.raised THEN EmptyDir ELSE v.dir
         /\ summary' = [summary EXCEPT !.validating_new = @ \cup v.results]
         /\ raised' = IF v.raised THEN "KeyError" ELSE raised
         /\ pc' = IF v.raised THEN "failed" ELSE "ckpt_write"
  /\ UNCHANGED << dry_run, no_validate_target, has_md5, excluded_packages, dirs,
                  target, index, index_bz2, temp_index, temp_bz2, noarch_index,
                  local_packages, to_mirror, mirror_seq, package_counter, final, loop_exit,
                  checkpoints, ckpt_counter, bad_used, run, max_packages, svars, rvars, vvars, wvars, repodata_packages, mvars >>

\* _write_repodata(download_dir, repodata): repodata.json, then its bz2
CkptWrite ==
  /\ pc = "ckpt_write"
  /\ temp_index' = PrunedIndex
  /\ repodata_packages' = PackagesAfterPruning(repodata_packages, PrunedIndex)
  /\ pc' = "ckpt_write_bz2"
  /\ UNCHANGED << dry_run, no_validate_target, has_md5, excluded_packages, dirs,
                  target, index, index_bz2, temp, temp_bz2, noarch_index,
                  local_packages, to_mirror, mirror_seq, package_counter, final,
                  loop_exit, summary, raised, checkpoints, ckpt_counter,
                  bad_used, run, max_packages, svars, rvars, vvars, wvars, mvars >>

CkptWriteBz2 ==
  /\ pc = "ckpt_write_bz2"
  /\ temp_bz2' = temp_index
  /\ pc' = "ckpt_move"
  /\ UNCHANGED << dry_run, no_validate_target, has_md5, excluded_packages, dirs,
                  target, index, index_bz2, temp, temp_index, noarch_index,
                  local_packages, to_mirror, mirror_seq, package_counter, final,
                  loop_exit, summary, raised, checkpoints, ckpt_counter,
                  bad_used, run, max_packages, svars, rvars, vvars, wvars, repodata_packages, mvars >>

\* for f in _list_conda_packages(download_dir): shutil.move(old, new); the
\* listing is taken in sorted order here (os.listdir fixes none)
CkptMovePackage ==
  /\ pc = "ckpt_move"
  /\ DOMAIN temp # {}
  /\ LET f == CHOOSE x \in DOMAIN temp : \A y \in DOMAIN temp : x <= y
     IN  /\ target' = With(target, f, temp[f])
         /\ temp' = Without(temp, f)
  /\ UNCHANGED << pc, dry_run, no_validate_target, has_md5, excluded_packages,
                  dirs, index, index_bz2, temp_index, temp_bz2, noarch_index,
                  local_packages, to_mirror, mirror_seq, package_counter, final,
                  loop_exit, summary, raised, checkpoints, ckpt_counter,
                  bad_used, run, max_packages, svars, rvars, vvars, wvars, repodata_packages, mvars >>

\* index files that are moved while package files are still to be moved
PackagesMovedOrNot(dir) == TRUE

\* the for loop over _list_conda_packages(download_dir) is over: no package
\* file is left in download_dir
PackagesMoved(dir) == DOMAIN dir = {}

\* shutil.move(download_dir/repodata.json, local_directory/repodata.json)
CkptMoveIndex ==
  /\ pc = "ckpt_move"
  /\ PackagesMoved(temp)
  /\ index' = temp_index
  /\ temp_index' = NoFile
  /\ pc' = "ckpt_move_bz2"
  /\ UNCHANGED << dry_run, no_validate_target, has_md5, excluded_packages, dirs,
                  target, index_bz2, temp, temp_bz2, noarch_index,
                  local_packages, to_mirror, mirror_seq, package_counter, final,
                  loop_exit, summary, raised, checkpoints, ckpt_counter,
                  bad_used, run, max_packages, svars, rvars, vvars, wvars, repodata_packages, mvars >>

\* shutil.move of repodata.json.bz2; _validate_and_move returns
CkptMoveBz2 ==
  /\ pc = "ckpt_move_bz2"
  /\ index_bz2' = temp_bz2
  /\ temp_bz2' = NoFile
  /\ checkpoints' = checkpoints + 1
  /\ ckpt_counter' = package_counter
  /\ pc' = IF final THEN "noarch" ELSE "relist"
  /\ UNCHANGED << dry_run, no_validate_target, has_md5, excluded_packages, dirs,
                  target, index, temp, temp_index, noarch_index,
                  local_packages, to_mirror, mirror_seq, package_counter, final,
                  loop_exit, summary, raised, bad_used, run, max_packages, svars, rvars, vvars, wvars, repodata_packages, mvars >>

\* local_packages = _list_conda_packages(local_directory) after a checkpoint
Relist ==
  /\ pc = "relist"
  /\ local_packages' = DOMAIN target
  /\ pc' = "loop"
  /\ UNCHANGED << dry_run, no_validate_target, has_md5, excluded_packages, dirs,
                  target, index, index_bz2, temp, temp_index, temp_bz2,
                  noarch_index, to_mirror, mirror_seq, package_counter, final,
                  loop_exit, summary, raised, checkpoints, ckpt_counter,
                  bad_used, run, max_packages, svars, rvars, vvars, wvars, repodata_packages, mvars >>

\* ------------------------------------------------------ main: the end

\* a noarch index that is rewritten in every run
NoarchIndexRewritten(before, old) == {}

\* if not os.path.exists(noarch_path): makedirs and _write_repodata with no
\* packages; an existing noarch directory is left as it is
NoarchIndexAfter(before, old) == IF "noarch" \in before THEN old ELSE {}

\* the noarch directory and its empty index, then return summary
NoarchAndReturn ==
  /\ pc = "noarch"
  /\ dirs' = dirs \cup {"noarch"}
  /\ noarch_index' = NoarchIndexAfter(dirs, noarch_index)
  /\ raised' = IF loop_exit = "exception" THEN CaughtDownloadException ELSE NoExc
  /\ pc' = IF raised' = NoExc THEN "done" ELSE "failed"
  /\ UNCHANGED << dry_run, no_validate_target, has_md5, excluded_packages,
                  target, index, index_bz2, temp, temp_index, temp_bz2,
                  local_packages, to_mirror, mirror_seq, package_counter, final,
                  loop_exit, summary, checkpoints, ckpt_counter, bad_used, run, max_packages, svars, rvars, vvars, wvars, repodata_packages, mvars >>

\* the first run downloaded and validated every file of its to-mirror set
FirstRunComplete ==
  /\ run = 1
  /\ pc = "done"
  /\ to_mirror \subseteq summary.downloaded
  /\ to_mirror \subseteq {e[1] : e \in {x \in summary.validating_new : x[2] = "None"}}

\* main is called again with the same arguments against the same remote
\* index, on the disk the first call left. Only the second run that follows
\* a complete first run is followed.
Rerun ==
  /\ FirstRunComplete
  /\ run' = 2
  /\ pc' = "makedirs"
  /\ local_packages' = {}
  /\ to_mirror' = {}
  /\ mirror_seq' = << >>
  /\ package_counter' = 0
  /\ final' = FALSE
  /\ loop_exit' = "running"
  /\ summary' = EmptySummary
  /\ checkpoints' = 0
  /\ ckpt_counter' = 0
  /\ repodata_packages' = NoFile
  /\ UNCHANGED << dry_run, no_validate_target, has_md5, excluded_packages, dirs,
                  target, index, index_bz2, temp, temp_index, temp_bz2,
                  noarch_index, raised, bad_used, max_packages, svars, rvars,
                  vvars, wvars, mvars >>

Next ==
  \/ Rerun
  \/ MakeDirs
  \/ GetRepodataOk
  \/ GetRepodataFail
  \/ Select
  \/ ValidateExisting
  \/ ListLocal
  \/ LoopEnd
  \/ DiskLowTemp
  \/ FetchRaise
  \/ DiskLowTarget
  \/ FetchOk
  \/ CkptValidate
  \/ CkptWrite
  \/ CkptWriteBz2
  \/ CkptMovePackage
  \/ CkptMoveIndex
  \/ CkptMoveBz2
  \/ Relist
  \/ NoarchAndReturn

vars == << pvars, svars, rvars, vvars, wvars, mvars >>

Spec == Init /\ [][Next]_vars

\* ------------------------------------------------------ pipeline: claims

\* a _validate_and_move call has just returned
CheckpointCompleted == pc \in {"relist", "noarch"}

\* main is over: it returned the summary ("done") or an exception left it
Terminated == pc \in {"done", "failed"}

\* files of the target directory, as _list_conda_packages would list them
TargetFiles == DOMAIN target

\* the filenames with outcome (path, None) in summary["validating-new"]
PassedNew == {e[1] : e \in {x \in summary.validating_new : x[2] = "None"}}

\* C1 as stated: when a checkpoint has completed, the filenames listed in the
\* target's repodata.json are exactly the package files present in the
\* target directory, for every run configuration.
C1_Original == CheckpointCompleted => index = TargetFiles

\* C1 (amended): when a checkpoint has completed, repodata.json and its
\* compressed companion list exactly the package files present in the target
\* directory that the remote snapshot knows; whenever validation of the
\* target was not skipped that is every package file present.
C1_IndexMatchesDirectory ==
  CheckpointCompleted =>
    /\ index = TargetFiles \cap packages
    /\ index_bz2 = index
    /\ (~no_validate_target => index = TargetFiles)

C1_Witness ==
  /\ pc = "noarch"
  /\ checkpoints = 1
  /\ no_validate_target
  /\ Foreign \in TargetFiles
  /\ \E e \in summary.validating_new : e[2] # "None"
  /\ PassedNew # {}

\* C2: at every point of a run, every filename listed in the repodata.json
\* persisted in the target directory is a package file present there.
C2_IndexNeverDangling == index # NoFile => index \subseteq TargetFiles

C10_EarlierFilesPreserved ==
  (Terminated /\ loop_exit = "exception") =>
    /\ checkpoints >= 1
    /\ \A k \in 1 .. package_counter :
         mirror_seq[k] \in PassedNew =>
           mirror_seq[k] \in TargetFiles /\ mirror_seq[k] \in index

\* the files a checkpoint of this run has moved into the target directory:
\* to_mirror holds no file that was in the directory when the loop started
MovedThisRun == TargetFiles \cap to_mirror

\* C11: when a free-space check finds less than the threshold, no further
\* fetch is started, the final checkpoint runs, and main returns the summary
\* normally instead of failing.
C11_DiskLowReturnsSummary ==
  loop_exit = "disk" =>
    /\ pc \notin {"loop", "relist"}
    /\ final
    /\ (Terminated => pc = "done" /\ raised = NoExc /\ checkpoints >= 1)

\* C12: every file that a checkpoint of this run moved into the target
\* directory (so every such completed fetch) has its url in
\* summary["downloaded"]. (The url is the filename put into a fixed
\* template, so one stands for the other.)
C12_DownloadedListsEveryFetch ==
  \A f \in MovedThisRun : f \in summary.downloaded

\* C13: every file a checkpoint moves into the target directory was validated
\* by that checkpoint and passed; a file that failed validation, a partial
\* file left by a failed fetch included, is never moved.
C13_OnlyValidatedFilesMoved ==
  /\ \A f \in MovedThisRun :
       /\ f \in PassedNew
       /\ Validate(RecordMd5(f), RecordSize(f), target[f]) = "pass"
  /\ \A e \in summary.validating_new : e[2] # "None" => e[1] \notin TargetFiles
  /\ (pc = "ckpt_move" =>
        \A f \in DOMAIN temp :
          f \in PassedNew /\ Validate(RecordMd5(f), RecordSize(f), temp[f]) = "pass")

\* a partial file left by a failed fetch was removed by the final checkpoint,
\* which moved the files fetched before it
C13_Witness ==
  /\ pc = "done"
  /\ loop_exit = "exception"
  /\ MovedThisRun # {}
  /\ \E k \in 1 .. Len(mirror_seq) :
       /\ k = package_counter + 1
       /\ \E e \in summary.validating_new : e[1] = mirror_seq[k] /\ e[2] # "None"
       /\ mirror_seq[k] \notin TargetFiles

\* main has gone past the validation of the existing target files
TargetValidated ==
  /\ ~dry_run
  /\ ~no_validate_target
  /\ pc \notin {"makedirs", "get_repodata", "select", "validate_existing"}
  /\ raised # "RuntimeError"

\* an exception left main from the validation of the existing target files
FailedValidatingExisting ==
  pc = "failed" /\ raised = "KeyError" /\ ~final /\ package_counter = 0

\* C17: in a run that validates the target, every file of the target
\* directory that is not in the desired index is deleted with the "not in
\* index" reason recorded, the run continues, and from then on every file in
\* the target directory is in (all filenames minus excluded).
C17_NotInIndexRemoved ==
  TargetValidated =>
    /\ TargetFiles \subseteq PossiblePackagesToMirror
    /\ ~FailedValidatingExisting
    /\ ((pc = "list_local" /\ index # NoFile) =>
          \A f \in index \ PossiblePackagesToMirror :
            << f, "notinindex" >> \in summary.validating_existing)

\* the second run has computed its to-mirror set
SecondRunListed ==
  run = 2 /\ pc \notin {"makedirs", "get_repodata", "select", "validate_existing",
                        "list_local", "failed"}

\* C18 as stated: for every configuration, the run that follows a first run
\* that downloaded and validated its whole to-mirror set computes an empty
\* to-mirror set and starts no fetch.
C18_Original ==
  /\ SecondRunListed => (to_mirror = {} /\ summary.to_mirror = {})
  /\ run = 2 => (summary.downloaded = {} /\ package_counter = 0)

\* C18 (amended): the same when no max_packages cap is set.
C18_SecondRunMirrorsNothing ==
  max_packages = NoCap =>
    /\ SecondRunListed => (to_mirror = {} /\ summary.to_mirror = {})
    /\ run = 2 => (summary.downloaded = {} /\ package_counter = 0 /\ temp = EmptyDir)

C18_Witness ==
  /\ run = 2
  /\ pc = "done"
  /\ max_packages = NoCap
  /\ Cardinality(TargetFiles) >= NPkgs - 1

\* C19 as stated: after any run of main that returns, dry-run or not and
\* whether or not a noarch directory existed before, the target root has a
\* noarch directory holding a repodata.json.
C19_Original == pc = "done" => ("noarch" \in dirs /\ noarch_index # NoFile)

\* C19 (amended): after a run that is not a dry run has returned the noarch
\* directory exists; the step that ends such a run creates it with an empty
\* index when it did not exist and leaves an existing one and whatever index
\* it has untouched; a dry run creates no directory and no index.
C19_NoarchAfterRealRun ==
  /\ []((pc = "done" /\ ~dry_run) => "noarch" \in dirs)
  /\ [][(pc = "noarch" /\ "noarch" \notin dirs) =>
           ("noarch" \in dirs' /\ noarch_index' = {})]_vars
  /\ [][(dry_run \/ (pc = "noarch" /\ "noarch" \in dirs)) =>
           (dirs' = dirs /\ noarch_index' = noarch_index)]_vars

C19_Witness ==
  /\ pc = "done"
  /\ ~dry_run
  /\ run = 1
  /\ "noarch" \in dirs
  /\ noarch_index = {}
  /\ index # NoFile
  /\ MovedThisRun # {}

\* the directories and files of the target root and of the download area
disk == << dirs, target, index, index_bz2, noarch_index, temp, temp_index, temp_bz2 >>

\* C23: when fetching the remote index fails, main is over with that failure
\* before any selection work: no blacklisted set is recorded, nothing is
\* validated, listed, downloaded or checkpointed, no file and no index of
\* the target root or the download area changes up to and including the
\* failure, and no step follows it.
C23_IndexFetchFailureAborts ==
  /\ [](raised = "RuntimeError" =>
          /\ pc = "failed"
          /\ summary = EmptySummary
          /\ local_packages = {} /\ to_mirror = {}
          /\ package_counter = 0 /\ checkpoints = 0
          /\ temp = EmptyDir /\ temp_index = NoFile /\ temp_bz2 = NoFile)
  /\ [][pc = "get_repodata" =>
          (UNCHANGED << target, index, index_bz2, noarch_index, temp, temp_index,
                        temp_bz2, excluded_packages, summary >>)]_vars
  /\ [][raised # "RuntimeError"]_vars

C23_Witness ==
  /\ pc = "failed"
  /\ raised = "RuntimeError"
  /\ ~dry_run
  /\ ~no_validate_target
  /\ "platform" \in dirs
  /\ Foreign \in TargetFiles
  /\ index # NoFile

\* C25: a dry run changes nothing on disk: no step of it changes a
\* directory, a file or an index of the target root or the download area;
\* when it returns, the summary holds the blacklisted and the to-mirror sets
\* and nothing else, and no file was fetched and no checkpoint made.
C25_DryRunChangesNothing ==
  /\ [][dry_run => (UNCHANGED disk)]_vars
  /\ []((dry_run /\ pc = "done") =>
          /\ summary = [EmptySummary EXCEPT !.blacklisted = excluded_packages,
                                            !.to_mirror = to_mirror]
          /\ package_counter = 0
          /\ checkpoints = 0)

\* a dry run has returned although the target holds a damaged file, an
\* unlisted file, and lacks files of the snapshot
C25_Witness ==
  /\ dry_run
  /\ pc = "done"
  /\ Foreign \in TargetFiles
  /\ 2 \in TargetFiles
  /\ target[2] = Partial
  /\ summary.to_mirror # {}
  /\ summary.blacklisted # {}

\* C29: in every run that is not a dry run and gets past the index fetch, a
\* checkpoint is performed after every 15th completed iteration and exactly
\* once more after the loop, however the loop ended; the run returns, and
\* with k completed iterations it has made k div 15 + 1 checkpoints.
C29_CheckpointCount ==
  /\ (~dry_run /\ pc = "failed") => raised = "RuntimeError"
  /\ (~dry_run /\ pc = "done") =>
       checkpoints = (package_counter \div CheckpointBatch) + 1
  /\ (pc = "loop" /\ ~final) =>
       /\ checkpoints = package_counter \div CheckpointBatch
       /\ ckpt_counter = CheckpointBatch * checkpoints

\* C30: within every checkpoint both index files are written in the download
\* area before anything is moved; the index files are moved into the target
\* directory only when no package file is left to move; and an index that
\* becomes visible in the target directory lists no file of the to-mirror
\* set that is not in the target directory.
C30_CheckpointOrder ==
  /\ [](pc \in {"ckpt_move", "ckpt_move_bz2"} => temp_bz2 # NoFile)
  /\ [](pc = "ckpt_move" => temp_index # NoFile)
  /\ [][(pc \in {"ckpt_validate", "ckpt_write", "ckpt_write_bz2"}) =>
          (UNCHANGED << target, index, index_bz2 >>)]_vars
  /\ [][(DOMAIN target' \ DOMAIN target # {}) =>
          (temp_index # NoFile /\ temp_bz2 # NoFile)]_vars
  /\ [][(index' # index \/ index_bz2' # index_bz2) =>
          (DOMAIN temp = {} /\ temp' = temp)]_vars
  /\ [][index' # index => (index' \cap to_mirror) \subseteq DOMAIN target']_vars
  /\ [][index_bz2' # index_bz2 =>
          (index_bz2' \cap to_mirror) \subseteq DOMAIN target']_vars

\* the index has just been moved into the target directory and lists files
\* this checkpoint moved there
C30_Witness ==
  /\ pc = "ckpt_move_bz2"
  /\ index # NoFile
  /\ index \cap to_mirror # {}
  /\ temp_bz2 # NoFile
  /\ Cardinality(MovedThisRun) >= 2

\* C32: a checkpoint leaves the snapshot in memory as get_repodata returned
\* it, so the index a checkpoint moves into the target directory lists
\* every file of the to-mirror set that this and the earlier checkpoints of
\* the run have moved there, and from the second checkpoint of a run on the
\* new index lists every filename of the index it replaces.
C32_SnapshotNotPruned ==
  [][/\ (repodata_packages # NoFile /\ run' = run) =>
          repodata_packages' = repodata_packages
     /\ (pc = "ckpt_move" /\ pc' = "ckpt_move_bz2") =>
          /\ (DOMAIN target' \cap to_mirror') \subseteq index'
          /\ checkpoints >= 1 => index \subseteq index']_vars

\* the run is past its second checkpoint, which listed a file fetched after
\* the first one
C32_Witness ==
  /\ pc = "noarch"
  /\ checkpoints = 2
  /\ repodata_packages = packages
  /\ Cardinality(MovedThisRun) > CheckpointBatch
  /\ MovedThisRun \subseteq index

\* summary["to-mirror"] has been filled in this run (line 1222 is passed)
ToMirrorReported ==
  \/ pc \in {"loop", "ckpt_validate", "ckpt_write", "ckpt_write_bz2", "ckpt_move",
              "ckpt_move_bz2", "relist", "noarch", "done"}
  \/ pc = "failed" /\ (final \/ package_counter > 0)

\* the candidates of line 1217, from the listing of the target directory
\* that local_packages holds until the first checkpoint is over
CandidatesListed == (packages \ excluded_packages) \ local_packages

\* C33 (amended): the to-mirror set of the summary is the snapshot's
\* filenames minus the excluded ones minus the files listed in the target
\* directory after the validation of existing files, cut to max_packages
\* elements when the cap is set and smaller; it is disjoint from the
\* summary's blacklisted set and from that listing, and every downloaded
\* entry of the summary is a file of the to-mirror set.
C33_ToMirrorSet ==
  ToMirrorReported =>
    /\ summary.to_mirror = to_mirror
    /\ summary.to_mirror \cap summary.blacklisted = {}
    /\ summary.downloaded \subseteq summary.to_mirror
    /\ (pc = "loop" /\ package_counter = 0 /\ checkpoints = 0) =>
         local_packages = TargetFiles
    /\ checkpoints = 0 =>
         /\ summary.to_mirror \subseteq CandidatesListed
         /\ summary.to_mirror \cap local_packages = {}
         /\ max_packages = NoCap => summary.to_mirror = CandidatesListed
         /\ max_packages # NoCap =>
              Cardinality(summary.to_mirror) =
                IF Cardinality(CandidatesListed) <= max_packages
                THEN Cardinality(CandidatesListed) ELSE max_packages

\* C33 as stated: the same, and the to-mirror set is disjoint from the local
\* inventory at every point of the run, after a checkpoint has refreshed
\* the inventory as well.
C33_Original ==
  /\ C33_ToMirrorSet
  /\ ToMirrorReported => summary.to_mirror \cap local_packages = {}

\* a capped run over a target directory that already holds files of the
\* snapshot: one of several candidates is chosen, and it is being fetched
C33_Witness ==
  /\ ToMirrorReported
  /\ max_packages = 1
  /\ checkpoints = 0
  /\ pc = "ckpt_validate"
  /\ local_packages \cap packages # {}
  /\ Cardinality(CandidatesListed) >= 2
  /\ Cardinality(summary.to_mirror) = 1
  /\ summary.downloaded = summary.to_mirror

\* =================================================================
\* Selection: _match, main's rule application, DependsMatcher and
\* _restore_required_dependencies (specification SpecSel)
\* =================================================================

\* A dependency string is the sequence of its whitespace-separated words;
\* a rule is a function from keys to pattern strings; versions, builds and
\* patterns are taken from a small vocabulary whose meaning the tables
\* below give.

NoPython == "None"
NoDigits == "no-digits"

\* str.lower()
Lower(s) ==
  CASE s = "AGPL" -> "agpl"
    [] s = "BSD" -> "bsd"
    [] s = "A" -> "a"
    [] s = "NAME" -> "name"
    [] s = "LICENSE" -> "license"
    [] s = "License" -> "license"
    [] s = "Agpl" -> "agpl"
    [] OTHER -> s

\* the order of version strings
Ver(v) ==
  CASE v = "1.0" -> 1
    [] v = "2.0" -> 2
    [] v = "3.0" -> 3
    [] OTHER -> 0

\* a version spec word as its comma-separated clauses
Clauses(w) ==
  CASE w = "*" -> << >>
    [] w = ">=1.0" -> << [op |-> ">=", v |-> "1.0"] >>
    [] w = ">=2.0" -> << [op |-> ">=", v |-> "2.0"] >>
    [] w = "<2.0" -> << [op |-> "<", v |-> "2.0"] >>
    [] w = ">=1.0,<3.0" -> << [op |-> ">=", v |-> "1.0"], [op |-> "<", v |-> "3.0"] >>
    [] OTHER -> << [op |-> "==", v |-> w] >>

ClauseHolds(cl, version) ==
  CASE cl.op = ">=" -> Ver(version) >= Ver(cl.v)
    [] cl.op = "<" -> Ver(version) < Ver(cl.v)
    [] OTHER -> version = cl.v

\* VersionSpec(word).match(version)
VersionMatch(w, version) ==
  \A i \in 1 .. Len(Clauses(w)) : ClauseHolds(Clauses(w)[i], version)

\* the interpreter tag a build string carries ("py312_0" -> "312")
PyTagOf(build) ==
  CASE build = "py312_0" -> "312"
    [] build = "py311_0" -> "311"
    [] OTHER -> ""

\* BuildNumberMatch(pattern).match(build)
BuildMatch(pat, build) ==
  CASE pat = "*" -> TRUE
    [] pat = "py*" -> PyTagOf(build) # ""
    [] OTHER -> pat = build

\* VERSION_SPEC_CHARS.search(pattern)
HasSpecChars(pat) == pat \in {">=1.0", ">=2.0", "<2.0", ">=1.0,<3.0"}

\* fnmatch.fnmatch(v, p) on this vocabulary
GlobMatch(v, p) == p = "*" \/ p = v

\* re.sub(VERSION_SPEC_CHARS, '', python_version).replace('.', '')
PyDigits(pv) ==
  CASE pv = ">=3.12" -> "312"
    [] pv = "3.12" -> "312"
    [] pv = "3.11" -> "311"
    [] OTHER -> pv

\* a field read without lowercasing it
InfoGetCaseSensitive(info, key) == IF key \in DOMAIN info THEN info[key] ELSE ""

\* str(pkg_info.get(key, "")).lower()
InfoGet(info, key) == IF key \in DOMAIN info THEN Lower(info[key]) ELSE ""

\* one matcher of _match applied to one package: keys and patterns are
\* lowercased, a version (build) pattern with a spec character is a
\* version (build) matcher, anything else a glob
KeyMatches(key, pattern, info) ==
  LET k == Lower(key)
      pat == Lower(pattern)
  IN  IF k = "version" /\ HasSpecChars(pat) THEN VersionMatch(pat, InfoGet(info, k))
      ELSE IF k = "build" /\ HasSpecChars(pat) THEN BuildMatch(pat, InfoGet(info, k))
      ELSE GlobMatch(InfoGet(info, k), pat)

\* pkg_name.split("-")[0] and pkg_name.split("-")[-1] of a filename
\* name-version-build.tar.bz2 whose name holds no dash
FirstSegment(all, f) == all[f].fn1
LastSegment(all, f) == all[f].fn3

\* filenames in reverse sorted order
RECURSIVE ReverseSorted(_)
ReverseSorted(S) ==
  IF S = {} THEN << >>
  ELSE LET m == CHOOSE x \in S : \A y \in S : y <= x
       IN  << m >> \o ReverseSorted(S \ {m})

\* a scan that looks at the first segment only
FreshByFirstSegment(all, f, kept) ==
  FirstSegment(all, f) \notin {FirstSegment(all, k) : k \in kept}

\* the condition of line 148: neither the first nor the last dash-separated
\* segment of the filename is the one of a filename kept so far
Fresh(all, f, kept) ==
  /\ FirstSegment(all, f) \notin {FirstSegment(all, k) : k \in kept}
  /\ LastSegment(all, f) \notin {LastSegment(all, k) : k \in kept}

\* the only_most_recent scan of _match: keep a match only if neither its
\* first nor its last dash-separated segment is that of a kept match
RECURSIVE MostRecentScan(_, _, _)
MostRecentScan(all, fs, kept) ==
  IF fs = << >> THEN kept
  ELSE LET f == Head(fs)
       IN  MostRecentScan(all, Tail(fs),
                          IF Fresh(all, f, kept) THEN kept \cup {f} ELSE kept)

\* _match(all_packages, key_pattern_dict, python_version, only_most_recent)
Match(all, rule, pyver, omr) ==
  LET matched == {f \in DOMAIN all :
                    \A key \in DOMAIN rule : KeyMatches(key, rule[key], all[f])}
      by_python == IF pyver # NoPython /\ pyver # ""
                   THEN {f \in matched : PyTagOf(InfoGet(all[f], "build")) = PyDigits(pyver)}
                   ELSE matched
  IN  IF omr THEN MostRecentScan(all, ReverseSorted(by_python), {}) ELSE by_python

\* the union of _match over a list of rules
RECURSIVE MatchAll(_, _, _, _)
MatchAll(all, rules, pyver, omr) ==
  IF rules = << >> THEN {}
  ELSE Match(all, Head(rules), pyver, omr) \cup MatchAll(all, Tail(rules), pyver, omr)

\* ------------------------------------------------------- DependsMatcher

\* DependsMatcher(pattern)(pkg_info): an empty pattern is "*"; the first
\* word is the version spec, the rest (if any) the build pattern
DependsMatcher(spec, info) ==
  LET pattern == IF spec = << >> THEN << "*" >> ELSE spec
  IN  /\ VersionMatch(pattern[1], IF "version" \in DOMAIN info THEN info.version ELSE "")
      /\ (Len(pattern) > 1 =>
            BuildMatch(pattern[2], IF "build" \in DOMAIN info THEN info.build ELSE ""))

\* ------------------------------------- _restore_required_dependencies

\* pkg_name, version_spec = dep.split(maxsplit=1), with the ValueError
\* fallback pkg_name, version_spec = dep, ""
SplitDep(dep) ==
  IF Len(dep) >= 2 THEN [name |-> dep[1], spec |-> Tail(dep), bare |-> FALSE]
  ELSE [name |-> IF Len(dep) = 1 THEN dep[1] ELSE "", spec |-> << >>, bare |-> TRUE]

\* the first run of digits and dots in a word, if it has any
FirstNumber(w) ==
  CASE w = "*" -> NoDigits
    [] w = "py*" -> NoDigits
    [] OTHER -> Clauses(w)[1].v

\* with only_most_recent: version_spec.split(","), the second piece if
\* there is one, else the first; "=", "<", ">" removed; then
\* re.search(r"(\d+(\.\d+)*)", ...).group(), NoDigits where that finds none
MostRecentSpec(spec) ==
  LET cls == Clauses(spec[1])
      piece == IF Len(cls) > 1 THEN cls[2].v
               ELSE IF Len(cls) = 1 THEN cls[1].v ELSE NoDigits
  IN  IF piece # NoDigits THEN piece
      ELSE IF Len(spec) > 1 THEN FirstNumber(spec[2]) ELSE NoDigits

\* already_required = {all_packages.get(r, {}).get("name") for r in required}
AlreadyRequired(all, required) == {all[r].name : r \in required}

\* info.get("depends", ())
Depends(info) == IF "depends" \in DOMAIN info THEN info.depends ELSE << >>

\* the dependency strings of the frontier
FrontierDepStrings(all, cur) ==
  UNION {{Depends(all[req])[i] : i \in 1 .. Len(Depends(all[req]))} : req \in cur}

\* the try block of one dependency raises: re.search(...) is None, and
\* AttributeError is not the ValueError the except clause names
DepRaises(dep, omr) ==
  omr /\ ~SplitDep(dep).bare /\ MostRecentSpec(SplitDep(dep).spec) = NoDigits

\* (pkg_name, version_spec) of one dependency as the round records it
DepEntry(dep, omr) ==
  LET s == SplitDep(dep)
  IN  IF omr /\ ~s.bare THEN << s.name, << MostRecentSpec(s.spec) >> >>
      ELSE << s.name, s.spec >>

\* required_depend_specs without the already_required test
RequiredDependSpecsUnfiltered(all, cur, already, omr) ==
  {DepEntry(d, omr) : d \in FrontierDepStrings(all, cur)}

\* required_depend_specs of one round, as the set of (name, version_spec)
\* pairs: the entries whose name is not in already_required
RequiredDependSpecs(all, cur, already, omr) ==
  {e \in {DepEntry(d, omr) : d \in FrontierDepStrings(all, cur)} : e[1] \notin already}

\* the filenames one round moves from final_excluded to cur_required
Restored(all, excl, specs) ==
  {k \in excl : \E e \in specs : e[1] = all[k].name /\ DependsMatcher(e[2], all[k])}

\* a loop that only tests the frontier
RestoreLoopRunsWhileFrontier(excl, cur) == cur # {}

\* while len(final_excluded) > 0 and len(cur_required) > 0
RestoreLoopRuns(excl, cur) == excl # {} /\ cur # {}

\* a frontier that is the caller's required set itself, not a copy of it:
\* cur_required.clear() and cur_required.add(k) then change the caller's set
RequiredAliased(req, moved) == moved

\* cur_required = set(required): the rounds work on a copy, the caller's
\* required set stays as it was
RequiredAfterRound(req, moved) == req

\* a rule application that forgets the difference_update
DifferenceUpdateSkipped(excl, req) == excl

\* excluded_packages.difference_update(required_packages)
DifferenceUpdate(excl, req) == excl \ req

\* ---------------------------------------------------- selection: inputs

\* Filenames are numbered in sorted order; fn1 and fn3 are the first and the
\* last dash-separated segment of the filename.
\* a-1.0-0 depends on "b >=2.0"; b-1.0-0; b-2.0-0 (records without build)
SnapshotAB ==
  (1 :> [fn1 |-> "a", fn3 |-> "0", name |-> "a", version |-> "1.0", build |-> "0",
         depends |-> << << "b", ">=2.0" >> >>])
  @@ (2 :> [fn1 |-> "b", fn3 |-> "0", name |-> "b", version |-> "1.0"])
  @@ (3 :> [fn1 |-> "b", fn3 |-> "0", name |-> "b", version |-> "2.0"])

\* a-1.0-py311_0 depends on "c *"; a-2.0-py312_0 depends on "b"; b-1.0-0
\* depends on "a >=1.0" and "c >=1.0,<3.0"; c-1.0-0 depends on "b *" and on
\* "c"; c-3.0-1
SnapshotCycle ==
  (1 :> [fn1 |-> "a", fn3 |-> "py311_0", name |-> "a", version |-> "1.0",
         build |-> "py311_0", depends |-> << << "c", "*" >> >>])
  @@ (2 :> [fn1 |-> "a", fn3 |-> "py312_0", name |-> "a", version |-> "2.0",
            build |-> "py312_0", depends |-> << << "b" >> >>])
  @@ (3 :> [fn1 |-> "b", fn3 |-> "0", name |-> "b", version |-> "1.0", build |-> "0",
            depends |-> << << "a", ">=1.0" >>, << "c", ">=1.0,<3.0" >> >>])
  @@ (4 :> [fn1 |-> "c", fn3 |-> "0", name |-> "c", version |-> "1.0", build |-> "0",
            depends |-> << << "b", "*" >>, << "c" >> >>])
  @@ (5 :> [fn1 |-> "c", fn3 |-> "1", name |-> "c", version |-> "3.0", build |-> "1",
            depends |-> << >>])

\* a-1.0-0 license "AGPL"; b-1.0-0 license "agpl"; c-1.0-0 license "BSD";
\* d-1.0-0 without a license field; e-1.0-0 license "Agpl"
SnapshotLicenses ==
  (1 :> [fn1 |-> "a", fn3 |-> "0", name |-> "a", version |-> "1.0", build |-> "0",
         license |-> "AGPL"])
  @@ (2 :> [fn1 |-> "b", fn3 |-> "0", name |-> "b", version |-> "1.0", build |-> "0",
            license |-> "agpl"])
  @@ (3 :> [fn1 |-> "c", fn3 |-> "0", name |-> "c", version |-> "1.0", build |-> "0",
            license |-> "BSD"])
  @@ (4 :> [fn1 |-> "d", fn3 |-> "0", name |-> "d", version |-> "1.0", build |-> "0"])
  @@ (5 :> [fn1 |-> "e", fn3 |-> "0", name |-> "e", version |-> "1.0", build |-> "0",
            license |-> "Agpl"])

Snapshots == {SnapshotAB, SnapshotCycle, SnapshotLicenses}

\* the single glob rule license='agpl', its key and pattern in three casings
LicenseBlacklists ==
  {<< ("license" :> "agpl") >>, << ("LICENSE" :> "AGPL") >>,
   << ("License" :> "Agpl") >>}

Blacklists ==
  {<< >>, << ("name" :> "*") >>, << ("name" :> "c") >>} \cup LicenseBlacklists

Whitelists == {<< >>, << ("name" :> "a") >>,
               << ("name" :> "b" @@ "version" :> ">=2.0") >>}

\* each python_whitelist item is a one-key dict {python_version: rules}
PythonWhitelists == {<< >>, << << "3.12", << ("name" :> "a") >> >> >>,
                     << << "3.11", << ("name" :> "a") >> >> >>}

\* the pipeline variables other than has_md5 while another part of the
\* program is studied
PipelineFilesIdle ==
  /\ dry_run = FALSE
  /\ no_validate_target = FALSE
  /\ dirs = {}
  /\ target = EmptyDir
  /\ index = NoFile
  /\ index_bz2 = NoFile
  /\ temp = EmptyDir
  /\ temp_index = NoFile
  /\ temp_bz2 = NoFile
  /\ noarch_index = NoFile
  /\ local_packages = {}
  /\ to_mirror = {}
  /\ mirror_seq = << >>
  /\ package_counter = 0
  /\ final = FALSE
  /\ loop_exit = "running"
  /\ summary = EmptySummary
  /\ checkpoints = 0
  /\ ckpt_counter = 0
  /\ bad_used = 0
  /\ max_packages = NoCap
  /\ run = 1
  /\ repodata_packages = NoFile

\* the pipeline variables while the selection or the retry loop is studied
PipelineIdle ==
  /\ has_md5 = TRUE
  /\ PipelineFilesIdle

\* the pipeline variables the selection does not use
pipeline_rest ==
  << dry_run, no_validate_target, has_md5, dirs, target, index, index_bz2, temp,
     temp_index, temp_bz2, noarch_index, local_packages, to_mirror, mirror_seq,
     package_counter, final, loop_exit, summary, checkpoints, ckpt_counter,
     bad_used, max_packages, run, repodata_packages >>

InitSel ==
  /\ PipelineIdle
  /\ RetryIdle
  /\ ValidateIdle
  /\ PoolIdle
  /\ MatchIdle
  /\ pc = "blacklist"
  /\ raised = NoExc
  /\ all_packages \in Snapshots
  /\ blacklist \in Blacklists
  /\ whitelist \in Whitelists
  /\ python_whitelist \in PythonWhitelists
  /\ include_depends \in BOOLEAN
  /\ only_most_recent \in BOOLEAN
  /\ excluded_packages = {}
  /\ required_packages = {}
  /\ python_version = Unbound
  /\ cur_required = {}
  /\ final_excluded = {}
  /\ excluded_in = {}

\* ------------------------------------------- main: rule application

\* for blist in blacklist: excluded_packages.update(_match(packages, blist))
ApplyBlacklist ==
  /\ pc = "blacklist"
  /\ excluded_packages' = MatchAll(all_packages, blacklist, NoPython, FALSE)
  /\ pc' = "python_whitelist"
  /\ UNCHANGED << raised, svars, pipeline_rest, vvars, rvars, wvars, mvars >>

\* the matches of the python_whitelist items, in order
RECURSIVE PythonWhitelistMatches(_, _, _)
PythonWhitelistMatches(all, pw, omr) ==
  IF pw = << >> THEN {}
  ELSE MatchAll(all, Head(pw)[2], Head(pw)[1], omr)
         \cup PythonWhitelistMatches(all, Tail(pw), omr)

\* if python_whitelist: for every item and python_version of it,
\* required_packages.update(...) for its rules, then difference_update;
\* python_version stays bound to the last key
ApplyPythonWhitelist ==
  /\ pc = "python_whitelist"
  /\ LET req == PythonWhitelistMatches(all_packages, python_whitelist, only_most_recent)
     IN  /\ required_packages' = req
         /\ excluded_packages' = IF python_whitelist = << >> THEN excluded_packages
                                 ELSE DifferenceUpdate(excluded_packages, req)
  /\ python_version' = IF python_whitelist = << >> THEN Unbound
                       ELSE python_whitelist[Len(python_whitelist)][1]
  /\ pc' = "whitelist"
  /\ UNCHANGED << raised, all_packages, blacklist, whitelist, python_whitelist,
                  include_depends, only_most_recent, cur_required, final_excluded,
                  excluded_in, pipeline_rest, vvars, rvars, wvars, mvars >>

\* what follows rule application: the resolver if include_depends
AfterRules(excl, req) ==
  /\ pc' = IF include_depends THEN "restore" ELSE "selected"
  /\ cur_required' = IF include_depends THEN req ELSE cur_required
  /\ final_excluded' = IF include_depends THEN excl ELSE final_excluded
  /\ excluded_in' = IF include_depends THEN excl ELSE excluded_in

\* if whitelist: for wlist in whitelist:
\*   required_packages.update(_match(packages, wlist, python_version, only_most_recent))
\* then difference_update
ApplyWhitelist ==
  /\ pc = "whitelist"
  /\ whitelist = << >> \/ python_version # Unbound
  /\ LET req == IF whitelist = << >> THEN required_packages
                ELSE required_packages
                       \cup MatchAll(all_packages, whitelist, python_version, only_most_recent)
         excl == IF whitelist = << >> THEN excluded_packages
                 ELSE DifferenceUpdate(excluded_packages, req)
     IN  /\ required_packages' = req
         /\ excluded_packages' = excl
         /\ AfterRules(excl, req)
  /\ UNCHANGED << raised, all_packages, blacklist, whitelist, python_whitelist,
                  include_depends, only_most_recent, python_version,
                  pipeline_rest, vvars, rvars, wvars, mvars >>

\* a whitelist without a python_whitelist: python_version is read before any
\* assignment, UnboundLocalError leaves main
WhitelistUnbound ==
  /\ pc = "whitelist"
  /\ whitelist # << >>
  /\ python_version = Unbound
  /\ raised' = "UnboundLocalError"
  /\ pc' = "failed"
  /\ UNCHANGED << excluded_packages, svars, pipeline_rest, vvars, rvars, wvars, mvars >>

\* ------------------------------- _restore_required_dependencies: rounds

\* one pass of the while loop
RestoreRound ==
  /\ pc = "restore"
  /\ RestoreLoopRuns(final_excluded, cur_required)
  /\ ~ \E d \in FrontierDepStrings(all_packages, cur_required) :
          DepRaises(d, only_most_recent)
  /\ LET specs == RequiredDependSpecs(all_packages, cur_required,
                      AlreadyRequired(all_packages, required_packages),
                      only_most_recent)
         moved == Restored(all_packages, final_excluded, specs)
     IN  /\ final_excluded' = final_excluded \ moved
         /\ cur_required' = moved
         /\ required_packages' = RequiredAfterRound(required_packages, moved)
  /\ UNCHANGED << pc, raised, excluded_packages, all_packages, blacklist, whitelist,
                  python_whitelist, include_depends, only_most_recent,
                  python_version, excluded_in,
                  pipeline_rest, vvars, rvars, wvars, mvars >>

\* a dependency of the frontier makes re.search(...).group() fail: the
\* AttributeError leaves _restore_required_dependencies and main
RestoreRaises ==
  /\ pc = "restore"
  /\ RestoreLoopRuns(final_excluded, cur_required)
  /\ \E d \in FrontierDepStrings(all_packages, cur_required) :
        DepRaises(d, only_most_recent)
  /\ raised' = "AttributeError"
  /\ pc' = "failed"
  /\ UNCHANGED << excluded_packages, svars, pipeline_rest, vvars, rvars, wvars, mvars >>

\* return final_excluded; main assigns it to excluded_packages
RestoreReturn ==
  /\ pc = "restore"
  /\ ~RestoreLoopRuns(final_excluded, cur_required)
  /\ excluded_packages' = final_excluded
  /\ pc' = "selected"
  /\ UNCHANGED << raised, svars, pipeline_rest, vvars, rvars, wvars, mvars >>

NextSel ==
  \/ ApplyBlacklist
  \/ ApplyPythonWhitelist
  \/ ApplyWhitelist
  \/ WhitelistUnbound
  \/ RestoreRound
  \/ RestoreRaises
  \/ RestoreReturn

SpecSel == InitSel /\ [][NextSel]_vars

\* main runs on: a step that can be taken is taken
SpecSelLive == SpecSel /\ WF_vars(NextSel)

\* ---------------------------------------------------- selection: claims

\* the filenames the resolver has moved out of the excluded set it was given
RestoredFiles == excluded_in \ excluded_packages

\* the names of the initially required packages
InitiallyRequiredNames == AlreadyRequired(all_packages, required_packages)

\* no excluded package satisfies a dependency entry, read as written in the
\* depending record, of a required or restored package, unless the entry
\* names an initially required package
ClosureComplete ==
  \A p \in required_packages \cup RestoredFiles :
    \A i \in 1 .. Len(Depends(all_packages[p])) :
      LET s == SplitDep(Depends(all_packages[p])[i])
      IN  s.name \notin InitiallyRequiredNames =>
            \A k \in excluded_packages :
              ~(all_packages[k].name = s.name /\ DependsMatcher(s.spec, all_packages[k]))

ResolverReturned == pc = "selected" /\ include_depends

\* C4: whenever include-dependencies is on, once the resolver has returned
\* no excluded package satisfies a dependency entry of a required or restored
\* package whose name is not that of an initially required package.
C4_ClosureComplete == ResolverReturned => ClosureComplete

\* C5: required and excluded are disjoint once the rules have been applied,
\* in every round of the resolver, and after it has returned.
C5_RequiredExcludedDisjoint ==
  pc \in {"restore", "selected"} =>
    /\ required_packages \cap excluded_packages = {}
    /\ required_packages \cap final_excluded = {}

C5_Witness ==
  /\ ResolverReturned
  /\ required_packages \cap MatchAll(all_packages, blacklist, NoPython, FALSE) # {}
  /\ RestoredFiles # {}
  /\ excluded_packages # {}

\* C6: no excluded file whose package name is that of an initially required
\* file ever leaves the excluded set, in any round.
C6_NoSelfPull ==
  (pc \in {"restore", "selected"} /\ include_depends) =>
    \A k \in excluded_in :
      all_packages[k].name \in InitiallyRequiredNames =>
        k \in (IF pc = "restore" THEN final_excluded ELSE excluded_packages)

\* a restored package depends on an initially required name, and an excluded
\* file of that name satisfies the constraint
C6_Witness ==
  /\ ResolverReturned
  /\ \E k \in excluded_packages, p \in RestoredFiles :
       /\ all_packages[k].name \in InitiallyRequiredNames
       /\ \E i \in 1 .. Len(Depends(all_packages[p])) :
            LET s == SplitDep(Depends(all_packages[p])[i])
            IN  s.name = all_packages[k].name /\ DependsMatcher(s.spec, all_packages[k])

\* C7: snapshot a-1.0-0 (depends "b >=2.0"), b-1.0-0, b-2.0-0, blacklist
\* name="*", whitelist name="a", no python-whitelist, include-dependencies
\* on: selection completes and the mirror set is {a-1.0-0, b-2.0-0}.
C7_ScenarioMirrorSet ==
  ( /\ all_packages = SnapshotAB
    /\ blacklist = << ("name" :> "*") >>
    /\ whitelist = << ("name" :> "a") >>
    /\ python_whitelist = << >>
    /\ include_depends
    /\ pc \in {"selected", "failed"} )
  => (pc = "selected" /\ (DOMAIN all_packages) \ excluded_packages = {1, 3})

\* the snapshot packages whose license, compared without regard to case, is
\* not agpl (a package without a license field has the license "")
NotAgpl ==
  {f \in DOMAIN all_packages :
     ~("license" \in DOMAIN all_packages[f]
       /\ all_packages[f].license \in {"agpl", "AGPL", "Agpl"})}

\* C20: with the single blacklist rule license='agpl', in any letter case,
\* and no whitelist, selection completes and the mirror set is exactly the
\* set of snapshot packages whose license is not agpl in any letter case.
C20_LicenseBlacklist ==
  ( /\ blacklist \in LicenseBlacklists
    /\ whitelist = << >>
    /\ python_whitelist = << >>
    /\ pc \in {"selected", "failed"} )
  => (pc = "selected" /\ (DOMAIN all_packages) \ excluded_packages = NotAgpl)

C20_Witness ==
  /\ pc = "selected"
  /\ all_packages = SnapshotLicenses
  /\ blacklist = << ("LICENSE" :> "AGPL") >>
  /\ whitelist = << >>
  /\ python_whitelist = << >>
  /\ excluded_packages = {1, 2, 5}

\* the rules of main have been applied (or applying them raised)
RulesApplied == pc \in {"restore", "selected", "failed"}

\* what every rule selects on its own: a python-whitelist rule with the
\* python version of its item, a whitelist rule with no python version
IndependentRequired ==
  PythonWhitelistMatches(all_packages, python_whitelist, FALSE)
    \cup MatchAll(all_packages, whitelist, NoPython, FALSE)

\* C21: rules are independent. Without most-recent-only, once main has
\* applied the rules the required set is the union, over every whitelist rule
\* and every python-whitelist rule, of the packages that satisfy all keys of
\* that rule (and the python version of its own item if it has one); what a
\* whitelist rule selects does not depend on the python-whitelist.
C21_RulesIndependent ==
  (RulesApplied /\ ~only_most_recent) =>
    /\ raised # "UnboundLocalError"
    /\ required_packages = IndependentRequired

\* a dependency entry that is a bare name or an empty string, or whose
\* constraint holds no version number
Malformed(dep) ==
  \/ SplitDep(dep).bare
  \/ /\ FirstNumber(SplitDep(dep).spec[1]) = NoDigits
     /\ (Len(SplitDep(dep).spec) > 1 => FirstNumber(SplitDep(dep).spec[2]) = NoDigits)

\* C22: the resolver never aborts on a dependency string, whatever
\* most-recent-only is, and in every round each malformed dependency entry
\* of the frontier is recorded under its name with a constraint that every
\* package satisfies.
C22_MalformedDepUnconstrained ==
  /\ raised # "AttributeError"
  /\ (pc = "restore" /\ RestoreLoopRuns(final_excluded, cur_required)) =>
       \A d \in FrontierDepStrings(all_packages, cur_required) :
         Malformed(d) =>
           /\ ~DepRaises(d, only_most_recent)
           /\ DepEntry(d, only_most_recent)[1] = SplitDep(d).name
           /\ \A k \in DOMAIN all_packages :
                DependsMatcher(DepEntry(d, only_most_recent)[2], all_packages[k])

\* a step of the while loop that stays in the loop
RoundStep == pc = "restore" /\ pc' = "restore"

\* C26: _restore_required_dependencies terminates, also on dependency
\* cycles and self-dependencies: a round runs only while the frontier and the
\* excluded set are both non-empty, every round moves at least one filename
\* out of excluded or leaves the frontier empty, the function returns only
\* when one of the two is empty, and every call ends (by returning, or by
\* the exception of a round).
C26_ResolverTerminates ==
  /\ [][RoundStep => (final_excluded # {} /\ cur_required # {})]_vars
  /\ [][RoundStep =>
          \/ cur_required' = {}
          \/ (final_excluded' \subseteq final_excluded
                /\ final_excluded' # final_excluded)]_vars
  /\ [][(pc = "restore" /\ pc' = "selected") =>
          (final_excluded = {} \/ cur_required = {})]_vars
  /\ (pc = "restore") ~> (pc \in {"selected", "failed"})

\* the resolver has returned after walking the cycle b -> c -> b and the
\* self-dependency of c
C26_Witness ==
  /\ ResolverReturned
  /\ all_packages = SnapshotCycle
  /\ ~only_most_recent
  /\ RestoredFiles = {3, 4, 5}

\* C27: the set _restore_required_dependencies returns is a subset of the
\* excluded set it was given, and while it runs the caller's required set,
\* the caller's excluded set and the snapshot stay as they were.
C27_ResolverFrame ==
  /\ [](pc = "restore" =>
          (excluded_packages = excluded_in /\ final_excluded \subseteq excluded_in))
  /\ [](ResolverReturned => excluded_packages \subseteq excluded_in)
  /\ [][pc = "restore" =>
          (UNCHANGED << required_packages, all_packages, excluded_in >>)]_vars

C27_Witness ==
  /\ ResolverReturned
  /\ required_packages # {}
  /\ RestoredFiles # {}
  /\ excluded_packages # {}
  /\ excluded_packages # excluded_in

\* C28: the resolver records every dependency of the frontier with its
\* constraint as written in the depending record, and a round moves a package
\* out of excluded only if the package satisfies, as (version range, build
\* range), the written constraint of at least one frontier dependency on its
\* name, that name not being initially required.
C28_ConstraintAsWritten ==
  /\ []((pc = "restore" /\ RestoreLoopRuns(final_excluded, cur_required)) =>
          \A d \in FrontierDepStrings(all_packages, cur_required) :
            ~DepRaises(d, only_most_recent)
              => DepEntry(d, only_most_recent) = << SplitDep(d).name, SplitDep(d).spec >>)
  /\ [][RoundStep =>
          \A k \in final_excluded \ final_excluded' :
            \E d \in FrontierDepStrings(all_packages, cur_required) :
              /\ SplitDep(d).name = all_packages[k].name
              /\ SplitDep(d).name \notin InitiallyRequiredNames
              /\ DependsMatcher(SplitDep(d).spec, all_packages[k])]_vars

\* =================================================================
\* _match as a function of its arguments (specification SpecMatch)
\* =================================================================

\* a-1.0-0, a-2.0-1, b-1.0-1, b-2.0-0, c-1.0-0: first and last segments
\* that cross
SnapshotSegments ==
  (1 :> [fn1 |-> "a", fn3 |-> "0", name |-> "a", version |-> "1.0", build |-> "0"])
  @@ (2 :> [fn1 |-> "a", fn3 |-> "1", name |-> "a", version |-> "2.0", build |-> "1"])
  @@ (3 :> [fn1 |-> "b", fn3 |-> "1", name |-> "b", version |-> "1.0", build |-> "1"])
  @@ (4 :> [fn1 |-> "b", fn3 |-> "0", name |-> "b", version |-> "2.0", build |-> "0"])
  @@ (5 :> [fn1 |-> "c", fn3 |-> "0", name |-> "c", version |-> "1.0", build |-> "0"])

\* the key_pattern_dict arguments tried
MatchRules ==
  {"name" :> "*", "name" :> "a", "name" :> "b", "name" :> "c",
   "name" :> "b" @@ "version" :> ">=2.0", "license" :> "agpl"}

\* the python_version arguments tried: None, an empty string, a version
MatchPythonVersions == {NoPython, "", "3.11", "3.12"}

InitMatch ==
  /\ PipelineIdle
  /\ RetryIdle
  /\ ValidateIdle
  /\ PoolIdle
  /\ pc = "match"
  /\ raised = NoExc
  /\ excluded_packages = {}
  /\ all_packages \in Snapshots \cup {SnapshotSegments}
  /\ key_pattern_dict \in MatchRules
  /\ python_version \in MatchPythonVersions
  /\ only_most_recent \in BOOLEAN
  /\ match_returned = {}
  /\ blacklist = << >>
  /\ whitelist = << >>
  /\ python_whitelist = << >>
  /\ include_depends = FALSE
  /\ required_packages = {}
  /\ cur_required = {}
  /\ final_excluded = {}
  /\ excluded_in = {}

\* return matched
MatchReturns ==
  /\ pc = "match"
  /\ match_returned' =
       Match(all_packages, key_pattern_dict, python_version, only_most_recent)
  /\ pc' = "matched"
  /\ UNCHANGED << key_pattern_dict, raised, excluded_packages, pipeline_rest,
                  svars, rvars, vvars, wvars >>

NextMatch == MatchReturns

SpecMatch == InitMatch /\ [][NextMatch]_vars

\* --------------------------------------------------------- _match: claims

\* the matches the scan starts from: the rule's matches, cut to the python
\* version when one is given
MatchesBeforeScan ==
  Match(all_packages, key_pattern_dict, python_version, FALSE)

SameSegment(f, g) ==
  \/ FirstSegment(all_packages, f) = FirstSegment(all_packages, g)
  \/ LastSegment(all_packages, f) = LastSegment(all_packages, g)

MaxRetries == 3
\* the byte counts a fetch can return
MaxBytes == 2

\* the exceptions one _download call can raise
FetchExceptions == {"ConnectionError", "Timeout"}

\* an except branch that gives up one attempt early
CanRetryEarly(count, limit) == count < limit - 1

\* if c < max_retries: sleep and go round again, else: raise
CanRetry(count, limit) == count < limit

\* while c < max_retries
RetryLoopRuns(count, limit) == count < limit

\* a draw whose upper end is two_c itself
JitterChoicesInclusive(two) == 0 .. two

\* random.randint(0, two_c - 1): both ends included
JitterChoices(two) == 0 .. (two - 1)

InitRetry ==
  /\ PipelineIdle
  /\ SelIdle
  /\ ValidateIdle
  /\ PoolIdle
  /\ MatchIdle
  /\ pc = "retry"
  /\ excluded_packages = {}
  /\ raised = NoExc
  /\ max_retries \in -1 .. MaxRetries
  /\ c = 0
  /\ two_c = 1
  /\ rtn = Unbound
  /\ rpc = "loop"
  /\ slept = -1
  /\ attempt_log = << >>

\* c += 1; two_c *= 2; _download raises; c < max_retries:
\* time.sleep(delay * random.randint(0, two_c - 1))
AttemptFailsSleep ==
  /\ rpc = "loop"
  /\ RetryLoopRuns(c, max_retries)
  /\ CanRetry(c + 1, max_retries)
  /\ c' = c + 1
  /\ two_c' = two_c * 2
  /\ \E e \in FetchExceptions :
       attempt_log' = Append(attempt_log, [ok |-> FALSE, exc |-> e, size |-> 0])
  /\ slept' \in JitterChoices(two_c * 2)
  /\ UNCHANGED << rpc, rtn, max_retries, pc, raised, excluded_packages, svars,
                  pipeline_rest, vvars, wvars, mvars >>

\* c += 1; two_c *= 2; _download raises; c = max_retries: raise
AttemptFailsRaise ==
  /\ rpc = "loop"
  /\ RetryLoopRuns(c, max_retries)
  /\ ~CanRetry(c + 1, max_retries)
  /\ c' = c + 1
  /\ two_c' = two_c * 2
  /\ \E e \in FetchExceptions :
       /\ attempt_log' = Append(attempt_log, [ok |-> FALSE, exc |-> e, size |-> 0])
       /\ raised' = e
  /\ rpc' = "raised"
  /\ UNCHANGED << rtn, slept, max_retries, pc, excluded_packages, svars,
                  pipeline_rest, vvars, wvars, mvars >>

\* c += 1; two_c *= 2; rtn = _download(...); break; return rtn
AttemptSucceeds ==
  /\ rpc = "loop"
  /\ RetryLoopRuns(c, max_retries)
  /\ c' = c + 1
  /\ two_c' = two_c * 2
  /\ \E n \in 0 .. MaxBytes :
       /\ attempt_log' = Append(attempt_log, [ok |-> TRUE, exc |-> NoExc, size |-> n])
       /\ rtn' = n
  /\ rpc' = "returned"
  /\ UNCHANGED << slept, max_retries, pc, raised, excluded_packages, svars,
                  pipeline_rest, vvars, wvars, mvars >>

\* the while condition is false with rtn never assigned: return rtn raises
\* UnboundLocalError
ReturnUnbound ==
  /\ rpc = "loop"
  /\ ~RetryLoopRuns(c, max_retries)
  /\ rtn = Unbound
  /\ raised' = "UnboundLocalError"
  /\ rpc' = "raised"
  /\ UNCHANGED << c, two_c, rtn, slept, attempt_log, max_retries, pc,
                  excluded_packages, svars, pipeline_rest, vvars, wvars, mvars >>

NextRetry ==
  \/ AttemptFailsSleep
  \/ AttemptFailsRaise
  \/ AttemptSucceeds
  \/ ReturnUnbound

SpecRetry == InitRetry /\ [][NextRetry]_vars

\* ---------------------------------------------------------- retry: claims

AllFailed == \A i \in 1 .. Len(attempt_log) : ~attempt_log[i].ok

\* C8: for max_retries = n >= 1, a fetch that always fails is attempted
\* exactly n times and the exception of the last attempt is raised; a fetch
\* that first succeeds on attempt k <= n is attempted exactly k times and
\* that attempt's byte count is returned.
C8_ExactAttempts ==
  max_retries >= 1 =>
    /\ Len(attempt_log) = c
    /\ c <= max_retries
    /\ (rpc = "loop" => AllFailed /\ c < max_retries)
    /\ (rpc = "raised" =>
          /\ AllFailed
          /\ Len(attempt_log) = max_retries
          /\ raised = attempt_log[max_retries].exc)
    /\ (rpc = "returned" =>
          /\ attempt_log[c].ok
          /\ \A i \in 1 .. (c - 1) : ~attempt_log[i].ok
          /\ rtn = attempt_log[c].size)

C8_Witness ==
  /\ max_retries = 3
  /\ rpc = "raised"
  /\ Len(attempt_log) = 3
  /\ attempt_log[1].exc # attempt_log[3].exc

\* C35: the sleep after the k-th failed attempt, k < max_retries, is delay
\* times an integer of 0 .. 2^k - 1 (slept is that integer); an attempt that
\* succeeds, and the failed attempt number max_retries, are followed by no
\* sleep; with max_retries <= 0 the only step of the call is its failure,
\* with no attempt made, no sleep and no byte count returned.
C35_BackoffSleep ==
  [][/\ (c' = c + 1 /\ ~attempt_log'[c'].ok /\ c' < max_retries) =>
          slept' \in 0 .. (2 ^ c' - 1)
     /\ (c' = c + 1 /\ (attempt_log'[c'].ok \/ c' >= max_retries)) =>
          slept' = slept
     /\ (c' = c) => slept' = slept
     /\ (max_retries <= 0) =>
          /\ rpc' = "raised"
          /\ raised' = "UnboundLocalError"
          /\ rtn' = Unbound
          /\ attempt_log' = << >>
          /\ slept' = -1]_vars

\* the second of three attempts has failed and the longest sleep that can
\* follow it was drawn
C35_Witness ==
  /\ max_retries = 3
  /\ rpc = "loop"
  /\ c = 2
  /\ AllFailed
  /\ slept = 3

\* =================================================================
\* _validate as a function of its arguments (specification SpecValidate)
\* =================================================================

\* the largest file size and expected size tried
MaxSize == 2

\* the md5 argument: None, an empty string, or a digest
Md5Args == {NoMd5, "", "h0", "h1"}

\* the size argument: None (-1) or a byte count
SizeArgs == -1 .. (MaxSize + 1)

\* the files _validate can be pointed at: an empty file is no tar archive
FileContents ==
  {f \in [hash : {"h0", "h1"}, size : 0 .. MaxSize, tar : {"ok", "corrupt", "nometa"}] :
     f.size = 0 => f.tar = "corrupt"}

InitValidate ==
  /\ PipelineIdle
  /\ SelIdle
  /\ RetryIdle
  /\ PoolIdle
  /\ MatchIdle
  /\ pc = "validate"
  /\ excluded_packages = {}
  /\ raised = NoExc
  /\ val_md5 \in Md5Args
  /\ val_size \in SizeArgs
  /\ val_file \in FileContents
  /\ val_exists = TRUE
  /\ val_out = "pending"

\* _validate returns (filename, None), or _remove_package deletes the file
\* and (filename, reason) is returned
ValidateReturns ==
  /\ val_out = "pending"
  /\ Validate(val_md5, val_size, val_file) # "raise"
  /\ val_out' = Validate(val_md5, val_size, val_file)
  /\ val_exists' = (Validate(val_md5, val_size, val_file) = "pass")
  /\ UNCHANGED << val_md5, val_size, val_file, pc, raised, excluded_packages,
                  pipeline_rest, svars, rvars, wvars, mvars >>

\* t.extractfile("info/index.json") raises KeyError, which the except clause
\* does not name: the exception leaves _validate and the file stays
ValidateRaises ==
  /\ val_out = "pending"
  /\ Validate(val_md5, val_size, val_file) = "raise"
  /\ val_out' = "raise"
  /\ raised' = "KeyError"
  /\ UNCHANGED << val_md5, val_size, val_file, val_exists, pc, excluded_packages,
                  pipeline_rest, svars, rvars, wvars, mvars >>

NextValidate ==
  \/ ValidateReturns
  \/ ValidateRaises

SpecValidate == InitValidate /\ [][NextValidate]_vars

\* ------------------------------------------------------- _validate: claims

ValidateCalled == val_out # "pending"

\* C14: a file whose content hash equals the expected hash passes and stays
\* in place, for every expected size and whether or not it is a readable
\* archive.
C14_CorrectHashPasses ==
  (ValidateCalled /\ val_file.hash = val_md5) =>
    (val_out = "pass" /\ val_exists /\ raised = NoExc)

C14_Witness ==
  /\ val_out = "pass"
  /\ val_file.hash = val_md5
  /\ val_size > 0
  /\ val_size # val_file.size
  /\ val_file.tar = "corrupt"

\* C15: with no expected hash and an expected size that differs from the
\* file's size, the file is deleted and the size-mismatch reason returned,
\* for every expected size, 0 included.
C15_WrongSizeRemoved ==
  (ValidateCalled /\ val_md5 = NoMd5 /\ val_size # -1 /\ val_size # val_file.size) =>
    (val_out = "size" /\ ~val_exists)

\* C16: every validation failure ends in a removal outcome and never in an
\* exception: after the call the file exists if and only if the outcome is
\* the pass outcome.
C16_FailureIsRemoval ==
  ValidateCalled =>
    /\ val_out \in {"pass", "md5", "size", "tar"}
    /\ raised = NoExc
    /\ (val_exists <=> val_out = "pass")

\* C31: the checks come in the order hash, size, archive, and a hash that
\* does not match lets the call go on to the size check: with a hash
\* supplied, a matching hash passes, otherwise a supplied size that differs
\* from the file's removes it with the size reason, otherwise the archive
\* is read and an unreadable one is removed with the archive reason. (The
\* order for a call without a hash is the subject of C15 and C16.)
C31_CheckOrder ==
  (ValidateCalled /\ val_md5 \notin {NoMd5, ""}) =>
    val_out = IF val_file.hash = val_md5 THEN "pass"
              ELSE IF val_size # -1 /\ val_size # val_file.size THEN "size"
              ELSE IF val_file.tar # "ok" THEN "tar"
              ELSE "pass"

\* =================================================================
\* _validate_packages with its worker pool (specification SpecPool)
\* =================================================================

\* the files of the validated directory are Foreign and 1 .. NFiles
NFiles == 4

\* num_threads: 1 is serial, 0 stands for os.cpu_count(), 2 is a pool of two
NumThreadsChoices == {1, 0, 2}

\* what os.cpu_count() can return
CpuCounts == {1, 3}

\* the keys of package_repodata: every file of the directory but Foreign
PoolRepodata == 1 .. NFiles

\* the directories validated: Foreign and every file of the repodata, at
\* most two of them damaged (truncated, or an archive without
\* info/index.json)
PoolDirs ==
  {d \in [{Foreign} \cup PoolRepodata -> {Good, Partial, NoMeta}] :
     /\ d[Foreign] = Good
     /\ Cardinality({f \in PoolRepodata : d[f] # Good}) <= 2}

\* num_threads == 1 or num_threads is None: the builtin map, which the
\* caller consumes
Sequential == num_threads = 1

\* multiprocessing.Pool(num_threads), num_threads = os.cpu_count() for 0
PoolSize ==
  IF Sequential THEN 1 ELSE IF num_threads = 0 THEN cpu_count ELSE num_threads

\* Pool.map: chunksize, extra = divmod(len(iterable), len(pool) * 4), one
\* more if extra
ChunkSize(n, workers) ==
  IF n % (workers * 4) # 0 THEN (n \div (workers * 4)) + 1 ELSE n \div (workers * 4)

\* a sequence cut into consecutive pieces of `size` elements
RECURSIVE Chunks(_, _)
Chunks(fs, size) ==
  IF fs = << >> THEN << >>
  ELSE IF Len(fs) <= size THEN << fs >>
  ELSE << SubSeq(fs, 1, size) >> \o Chunks(SubSeq(fs, size + 1, Len(fs)), size)

\* the work as it is handed out: the whole sorted list to the one consumer
\* of the builtin map, or the chunks of Pool.map
InitialTasks(fs) ==
  IF Sequential THEN << fs >> ELSE Chunks(fs, ChunkSize(Len(fs), PoolSize))

NoRemoval == "none"

InitPool ==
  /\ PipelineFilesIdle
  /\ SelIdle
  /\ RetryIdle
  /\ ValidateIdle
  /\ MatchIdle
  /\ has_md5 \in BOOLEAN
  /\ pc = "pool"
  /\ raised = NoExc
  /\ excluded_packages = {}
  /\ num_threads \in NumThreadsChoices
  /\ cpu_count \in CpuCounts
  /\ package_directory \in PoolDirs
  /\ dir_in = package_directory
  /\ task_queue = InitialTasks(SortedSeq(DOMAIN package_directory))
  /\ pool_workers = [w \in 1 .. PoolSize |-> [chunk |-> << >>, removing |-> NoRemoval]]
  /\ validation_results = {}
  /\ pool_failed = FALSE
  /\ pool_log = [f \in DOMAIN package_directory |-> [handled |-> 0, removed |-> 0]]

pool_rest == << excluded_packages, pipeline_rest, svars, rvars, vvars, mvars,
                num_threads, cpu_count, dir_in >>

\* an idle worker takes the next chunk
TakeTask ==
  /\ pc = "pool"
  /\ task_queue # << >>
  /\ \E w \in DOMAIN pool_workers :
       /\ pool_workers[w].chunk = << >>
       /\ pool_workers[w].removing = NoRemoval
       /\ pool_workers' = [pool_workers EXCEPT ![w].chunk = Head(task_queue)]
  /\ task_queue' = Tail(task_queue)
  /\ UNCHANGED << pc, raised, package_directory, validation_results, pool_failed,
                  pool_log, pool_rest >>

\* a worker calls _validate_or_remove_package on the next file of its chunk,
\* up to the point where the file passes, is about to be removed, or the
\* call raises; an exception ends the worker's chunk
CallValidate ==
  /\ pc = "pool"
  /\ \E w \in DOMAIN pool_workers :
       /\ pool_workers[w].chunk # << >>
       /\ pool_workers[w].removing = NoRemoval
       /\ LET f == Head(pool_workers[w].chunk)
              out == IF f \in DOMAIN package_directory
                     THEN ValidateOrRemove(f, PoolRepodata, package_directory[f])
                     ELSE "raise"
          IN  /\ pool_log' = [pool_log EXCEPT ![f].handled = @ + 1]
              /\ pool_failed' = (pool_failed \/ out = "raise")
              /\ validation_results' =
                   IF out = "pass" THEN validation_results \cup {<< f, "None" >>}
                   ELSE validation_results
              /\ pool_workers' =
                   [pool_workers EXCEPT ![w] =
                      IF out = "raise" THEN [chunk |-> << >>, removing |-> NoRemoval]
                      ELSE IF out = "pass" THEN [chunk |-> Tail(@.chunk), removing |-> NoRemoval]
                      ELSE [chunk |-> @.chunk, removing |-> out]]
  /\ UNCHANGED << pc, raised, package_directory, task_queue, pool_rest >>

\* _remove_package: os.remove(pkg_path), return pkg_path, msg
RemovePackage ==
  /\ pc = "pool"
  /\ \E w \in DOMAIN pool_workers :
       /\ pool_workers[w].removing # NoRemoval
       /\ LET f == Head(pool_workers[w].chunk)
          IN  /\ package_directory' = Without(package_directory, f)
              /\ pool_log' = [pool_log EXCEPT ![f].removed = @ + 1]
              /\ validation_results' =
                   validation_results \cup {<< f, pool_workers[w].removing >>}
              /\ pool_workers' =
                   [pool_workers EXCEPT ![w] =
                      [chunk |-> Tail(@.chunk), removing |-> NoRemoval]]
  /\ UNCHANGED << pc, raised, task_queue, pool_failed, pool_rest >>

\* no chunk is left and no worker is busy
PoolDrained ==
  /\ task_queue = << >>
  /\ \A w \in DOMAIN pool_workers :
       pool_workers[w].chunk = << >> /\ pool_workers[w].removing = NoRemoval

\* every call returned: the caller has all the results
MapReturns ==
  /\ pc = "pool"
  /\ PoolDrained
  /\ ~pool_failed
  /\ pc' = "pool_done"
  /\ UNCHANGED << raised, package_directory, task_queue, pool_workers,
                  validation_results, pool_failed, pool_log, pool_rest >>

\* a call raised. The builtin map raises in the caller's update(), which
\* keeps the results before it; Pool.map raises once all chunks are done and
\* validation_results is never bound
MapRaises ==
  /\ pc = "pool"
  /\ PoolDrained
  /\ pool_failed
  /\ pc' = "failed"
  /\ raised' = "KeyError"
  /\ validation_results' = IF Sequential THEN validation_results ELSE {}
  /\ UNCHANGED << package_directory, task_queue, pool_workers, pool_failed,
                  pool_log, pool_rest >>

NextPool ==
  \/ TakeTask
  \/ CallValidate
  \/ RemovePackage
  \/ MapReturns
  \/ MapRaises

SpecPool == InitPool /\ [][NextPool]_vars

\* --------------------------------------------- _validate_packages: claims

\* sequential validation of the directory _validate_packages was given
SequentialOutcome ==
  ValidatePackages(SortedSeq(DOMAIN dir_in), PoolRepodata, dir_in)

PoolOver == pc \in {"pool_done", "failed"}

\* C24: for every pool size and every interleaving of the workers, no file is
\* handled by more than one call or removed more than once, and when
\* _validate_packages is over it has produced the (path, reason) outcomes of
\* sequential validation, left the files sequential validation leaves, ended
\* as sequential validation ends, and handled exactly once every file that
\* sequential validation handles.
C24_PoolEqualsSequential ==
  /\ \A f \in DOMAIN pool_log : pool_log[f].handled <= 1 /\ pool_log[f].removed <= 1
  /\ PoolOver =>
       /\ validation_results = SequentialOutcome.results
       /\ package_directory = SequentialOutcome.dir
       /\ (raised # NoExc) = SequentialOutcome.raised
       /\ \A f \in DOMAIN pool_log :
            (\E e \in SequentialOutcome.results : e[1] = f) => pool_log[f].handled = 1

====
